---- MODULE Spec2Model ----
(***************************************************************************)
(* Strykr.ai Auto Bot: the MainOrchestrator pipeline (single-flight guard, *)
(* fetch, categorise, query, dedup check, insight, format, cache), its     *)
(* file-per-record history store, and the Telegram bot that drives it.     *)
(***************************************************************************)
EXTENDS Integers, Sequences, FiniteSets, TLC

(***************************************************************************)
(* Bounds of the model.                                                    *)
(***************************************************************************)
\* Date.now() has millisecond resolution; the model's clock counts ticks,
\* TicksPerSecond of them in a second and SecondsPerHour seconds in an hour.
TicksPerSecond == 2
SecondsPerHour == 2
\* The clock runs from 0 to MaxHours hours.
MaxHours == 8
\* The host's zone offsets (local minus UTC) range over -MaxTzHours..MaxTzHours.
MaxTzHours == 7
\* Records in the cache directory when the dedup guard is exercised alone.
MaxRecords == 1
\* Records already in the cache directory beyond the cap when a process starts.
MaxExcess == 1
\* Ticks during which one process appends records when the retention is
\* exercised alone.
MaxAppends == 3

(***************************************************************************)
(* Program constants.                                                      *)
(***************************************************************************)
\* sixHoursAgo.setHours(sixHoursAgo.getHours() - 6)
windowHours == 6
\* if (cacheFiles.length > 100), slice(0, cacheFiles.length - 100)
maxCacheFiles == 100

TicksPerHour == TicksPerSecond * SecondsPerHour
MaxTime == MaxHours * TicksPerHour
TzOffsets == (-MaxTzHours)..MaxTzHours

(***************************************************************************)
(* JavaScript String and Array methods the code uses.                      *)
(***************************************************************************)
\* String.prototype.includes
includes(s, k) ==
  \E i \in 1..(Len(s) - Len(k) + 1) : SubSeq(s, i, i + Len(k) - 1) = k

\* Index of the first occurrence of the one-character string ch in s, 0 if none.
indexOf(s, ch) ==
  IF \E i \in 1..Len(s) : SubSeq(s, i, i) = ch
  THEN CHOOSE i \in 1..Len(s) :
         /\ SubSeq(s, i, i) = ch
         /\ \A j \in 1..(i - 1) : SubSeq(s, j, j) # ch
  ELSE 0

\* String.prototype.split(',') : "" gives <<"">>, "a,b" gives <<"a", "b">>.
RECURSIVE split(_)
split(s) ==
  LET i == indexOf(s, ",")
  IN  IF i = 0 THEN <<s>>
      ELSE <<SubSeq(s, 1, i - 1)>> \o split(SubSeq(s, i + 1, Len(s)))

\* Array.prototype.join(',')
RECURSIVE join(_)
join(a) ==
  IF Len(a) = 0 THEN ""
  ELSE IF Len(a) = 1 THEN a[1]
  ELSE a[1] \o "," \o join(Tail(a))

(***************************************************************************)
(* Time: Date, toISOString, and the parse of a cache file's name.          *)
(***************************************************************************)
\* new Date().toISOString(): the UTC wall clock "....:ss.sssZ", kept as the pair
\* <<whole seconds, fraction>>; the fields have fixed width, so the string
\* order of two names is the lexicographic order of the pairs.
toISOString(t) == <<t \div TicksPerSecond, t % TicksPerSecond>>

\* file.split('.')[0]: the name up to its first '.', which drops the fraction,
\* the 'Z' and the extension.
fileStem(name) == name[1]

\* new Date("YYYY-MM-DDTHH:mm:ss"): a date-time string with no zone designator
\* is read as LOCAL time, so the instant is the wall clock minus the host's
\* offset tz (local minus UTC, in hours).
parseLocal(stem, tz) == stem * TicksPerSecond - tz * TicksPerHour

\* const sixHoursAgo = new Date(); sixHoursAgo.setHours(getHours() - 6)
sixHoursAgo(t) == t - windowHours * TicksPerHour

\* Array.prototype.sort() on file names: string order.
nameLess(a, b) == a[1] < b[1] \/ (a[1] = b[1] /\ a[2] < b[2])

(***************************************************************************)
(* DedupGuard: the cache directory, one file per processed topic.          *)
(* A file is [name |-> toISOString(t), category, keywords]; its            *)
(* formattedContent is opaque to the guard and identified by the file. The *)
(* directory is a set of files with distinct names.                        *)
(***************************************************************************)
\* A cached record matches the candidate: same category, and some element of
\* cachedData.keywords.split(',') is a substring of the joined candidate.
recordMatches(f, category, keywords) ==
  /\ f.category = category
  /\ LET kws == split(f.keywords)
     IN  \E i \in 1..Len(kws) : includes(keywords, kws[i])

\* if (fileTimestamp < sixHoursAgo) continue
fileSkipped(f, t, tz) == parseLocal(fileStem(f.name), tz) < sixHoursAgo(t)

\* A variant whose catch block answers true.
checkFailsClosed(dir, t, tz, category, keywords, fault) ==
  \/ fault # "none"
  \/ \E f \in dir : ~fileSkipped(f, t, tz) /\ recordMatches(f, category, keywords)

\* checkIfRecentlyProcessed(category, keywords) at instant t on a host with zone
\* offset tz; fault = "readdir" when listing the directory throws, "readFile"
\* when reading or parsing a file throws before a match was found (caught:
\* return false).
checkIfRecentlyProcessed(dir, t, tz, category, keywords, fault) ==
  IF fault \in {"readdir", "readFile"} THEN FALSE
  ELSE \E f \in dir : ~fileSkipped(f, t, tz) /\ recordMatches(f, category, keywords)

\* cacheFiles.sort(); cacheFiles.slice(0, cacheFiles.length - 100): the files
\* whose rank in name order is below the excess over the cap.
rank(files, f) == Cardinality({g \in files : nameLess(g.name, f.name)})

\* A variant that deletes from the wrong end of the sorted list.
filesToDeleteNewest(files) ==
  {f \in files : rank(files, f) >= maxCacheFiles}

filesToDelete(files) ==
  {f \in files : rank(files, f) < Cardinality(files) - maxCacheFiles}

\* A variant that writes the record under two names.
writeFileTwice(dir, f) ==
  {g \in dir : g.name # f.name} \cup {f, [f EXCEPT !.name = <<f.name[1], f.name[2] + 1>>]}

\* writeFile creates the file or replaces the one of the same name.
writeFile(dir, f) == {g \in dir : g.name # f.name} \cup {f}

\* cacheProcessedTopic(category, keywords, formattedContent) at instant t.
\* fault names the first file-system call that throws ("none", "writeFile",
\* "readdir", "unlink"); with "unlink", done unlinks succeeded before it. Every
\* error is caught and logged, and the function returns normally.
cacheProcessedTopic(dir, t, category, keywords, fault, done) ==
  LET f == [name |-> toISOString(t), category |-> category, keywords |-> keywords]
      written == writeFile(dir, f)
      doomed == filesToDelete(written)
  IN  IF fault = "writeFile" THEN dir
      ELSE IF fault = "readdir" THEN written
      ELSE IF Cardinality(written) > maxCacheFiles
           THEN IF fault = "unlink"
                THEN written \ {g \in doomed : rank(written, g) < done}
                ELSE written \ doomed
           ELSE written

\* getLatestContent(): cacheFiles.sort().reverse()[0], or null for an empty
\* directory; the result is the latest file (its content identifies it).
hasLatestContent(dir) == dir # {}
getLatestContent(dir) ==
  CHOOSE f \in dir : \A g \in dir : g = f \/ nameLess(g.name, f.name)

(***************************************************************************)
(* CategorizationEngine.                                                   *)
(***************************************************************************)
Categories == <<"MACROECONOMICS", "EARNINGS", "TECH_AI", "CRYPTO", "REGULATION">>

TOPIC_CATEGORIES ==
  [MACROECONOMICS |->
     <<"inflation", "cpi", "ppi", "gdp", "recession", "fed", "interest rate",
       "fomc", "powell", "treasury", "yield", "economy", "economic",
       "unemployment", "jobs report", "nonfarm payroll", "consumer confidence",
       "housing", "fiscal", "monetary policy">>,
   EARNINGS |->
     <<"earnings", "revenue", "eps", "profit", "guidance", "forecast", "outlook",
       "beats", "misses", "quarterly", "q1", "q2", "q3", "q4", "result">>,
   TECH_AI |->
     <<"ai", "artificial intelligence", "machine learning", "ml",
       "semiconductor", "chip", "tech", "technology", "nvidia", "nvda", "meta",
       "apple", "aapl", "msft", "microsoft", "amzn", "amazon", "googl", "google",
       "openai", "data center", "cloud">>,
   CRYPTO |->
     <<"crypto", "bitcoin", "btc", "eth", "ethereum", "blockchain", "defi",
       "token", "coin", "exchange", "binance", "coinbase", "wallet", "mining",
       "sec", "regulation", "stablecoin", "nft">>,
   REGULATION |->
     <<"regulation", "regulator", "compliance", "sec", "cftc", "finra", "fdic",
       "occ", "federal reserve", "lawsuit", "legal", "fine", "penalty",
       "investigation", "probe", "antitrust", "privacy", "data protection",
       "bill", "law">>]

\* String.prototype.toLowerCase
UpperCase == "ABCDEFGHIJKLMNOPQRSTUVWXYZ"
LowerCase == "abcdefghijklmnopqrstuvwxyz"
lowerChar(ch) ==
  LET i == indexOf(UpperCase, ch)
  IN  IF i = 0 THEN ch ELSE SubSeq(LowerCase, i, i)
RECURSIVE toLowerCase(_)
toLowerCase(s) ==
  IF Len(s) = 0 THEN ""
  ELSE lowerChar(SubSeq(s, 1, 1)) \o toLowerCase(SubSeq(s, 2, Len(s)))

\* The first keyword of the category found in the tweet's lower-cased text
\* (the inner loop breaks on it); 0 if the tweet matches none.
firstMatchIn(tweetText, category) ==
  LET kws == TOPIC_CATEGORIES[category]
      hits == {k \in 1..Len(kws) : includes(tweetText, kws[k])}
  IN  IF hits = {} THEN 0 ELSE CHOOSE k \in hits : \A j \in hits : k <= j

\* The texts of the tweets that are scored.
ScorerTexts ==
  << "BREAKING: Fed signals rate cut, inflation falls",
     "$AAPL beats earnings",
     "ALERT stocks flat today",
     "SEC probes crypto exchange",
     "Fed, Nvidia earnings, bitcoin and SEC lawsuit",
     "" >>

\* tweet.text.toLowerCase() of each text, and the first match of each text in
\* each category.
lowerCased == [x \in 1..Len(ScorerTexts) |-> toLowerCase(ScorerTexts[x])]
firstMatches ==
  [x \in 1..Len(ScorerTexts), i \in 1..Len(Categories) |->
     firstMatchIn(lowerCased[x], Categories[i])]

firstMatch(tweet, category) ==
  LET x == CHOOSE x \in 1..Len(ScorerTexts) : ScorerTexts[x] = tweet.text
      i == CHOOSE i \in 1..Len(Categories) : Categories[i] = category
  IN  firstMatches[x, i]

\* A variant that weighs retweets, likes and quotes alike.
engagementUnweighted(tweet) ==
  tweet.retweetCount + tweet.likeCount + tweet.quoteCount

\* retweetCount * 3 + likeCount + quoteCount * 2
engagementScore(tweet) ==
  tweet.retweetCount * 3 + tweet.likeCount + tweet.quoteCount * 2

\* A variant without Math.max(1, ...).
recencyBoostUnbounded(age) == 5 - (4 * age) \div TicksPerHour

\* Math.max(1, 5 - Math.floor((Date.now() - createdAt) / 15 minutes))
recencyBoost(age) ==
  LET windows == (4 * age) \div TicksPerHour
  IN  IF 5 - windows > 1 THEN 5 - windows ELSE 1

\* The accumulator of one category after the tweets have been scanned in order.
RECURSIVE topicScores(_, _, _)
topicScores(tweets, category, t) ==
  IF Len(tweets) = 0
  THEN [score |-> 0, keywords |-> <<>>, tweets |-> <<>>]
  ELSE LET n == Len(tweets)
           acc == topicScores(SubSeq(tweets, 1, n - 1), category, t)
           tweet == tweets[n]
           k == firstMatch(tweet, category)
           kw == TOPIC_CATEGORIES[category][k]
       IN  IF k = 0 THEN acc
           ELSE [score |-> acc.score
                             + engagementScore(tweet) * recencyBoost(t - tweet.createdAt),
                 keywords |-> IF \E i \in 1..Len(acc.keywords) : acc.keywords[i] = kw
                              THEN acc.keywords
                              ELSE Append(acc.keywords, kw),
                 tweets |-> IF \E i \in 1..Len(acc.tweets) : acc.tweets[i].id = tweet.id
                            THEN acc.tweets
                            ELSE Append(acc.tweets, tweet)]

\* The topic of the i-th category.
topicOf(tweets, i, t) ==
  LET data == topicScores(tweets, Categories[i], t)
  IN  [category |-> Categories[i], score |-> data.score,
       keywords |-> data.keywords, relatedTweets |-> data.tweets,
       hasKeywords |-> TRUE]

\* A variant that keeps the categories of score 0.
sortedTopicsUnfiltered(tweets, t) ==
  LET all == [i \in 1..Len(Categories) |-> topicOf(tweets, i, t)]
      before(i, j) ==
        \/ all[i].score > all[j].score
        \/ all[i].score = all[j].score /\ i < j
      pos(i) == 1 + Cardinality({j \in 1..Len(Categories) : before(j, i)})
  IN  [p \in 1..Len(Categories) |->
         all[CHOOSE i \in 1..Len(Categories) : pos(i) = p]]

\* .filter(topic => topic.score > 0).sort((a, b) => b.score - a.score): the
\* sort is stable, so equal scores stay in category order.
sortedTopics(tweets, t) ==
  LET all == [i \in 1..Len(Categories) |-> topicOf(tweets, i, t)]
      kept == {i \in 1..Len(Categories) : all[i].score > 0}
      before(i, j) ==
        \/ all[i].score > all[j].score
        \/ all[i].score = all[j].score /\ i < j
      pos(i) == 1 + Cardinality({j \in kept : before(j, i)})
  IN  [p \in 1..Cardinality(kept) |-> all[CHOOSE i \in kept : pos(i) = p]]

\* fallbackLLMCategorization(tweets). llm is what the chat-completion call and
\* JSON.parse yield: "error" (the request fails, the content is not JSON, or
\* the parsed value has no map method), or the parsed array of topic objects,
\* each given the sample of the first 10 tweets. A topic object may lack its
\* keywords (hasKeywords = FALSE): nothing validates the parsed objects.
slice(a, n) == SubSeq(a, 1, IF Len(a) < n THEN Len(a) ELSE n)

fallbackLLMCategorization(tweets, llm) ==
  IF llm = "error"
  THEN <<[category |-> "MACROECONOMICS", score |-> 50,
          keywords |-> <<"market", "economy">>,
          relatedTweets |-> slice(tweets, 3), hasKeywords |-> TRUE]>>
  ELSE [i \in 1..Len(llm) |->
          [category |-> llm[i].category, score |-> llm[i].score,
           keywords |-> llm[i].keywords, relatedTweets |-> slice(tweets, 10),
           hasKeywords |-> llm[i].hasKeywords]]

\* categorizeTopics(tweets) at instant t, given the keyword scorer's result.
categorizeFrom(sorted, tweets, llm) ==
  IF Len(tweets) = 0 THEN <<>>
  ELSE IF Len(sorted) = 0
       THEN fallbackLLMCategorization(tweets, llm)
       ELSE slice(sorted, 3)

categorizeTopics(tweets, t, llm) ==
  categorizeFrom(sortedTopics(tweets, t), tweets, llm)

(***************************************************************************)
(* QueryBuilder.                                                           *)
(***************************************************************************)
\* private readonly templates
templates ==
  [MACROECONOMICS |->
     <<"What does Strykr.ai think about the recent {keyword} data and its impact on markets?",
       "How might today's news about {keyword} affect market sentiment in the next 24-48 hours?",
       "How does Strykr.ai assess the recent market reaction to {keyword} developments?",
       "Given the latest {keyword} news, what sectors might outperform or underperform in the short term?",
       "How should investors interpret today's {keyword} news in the context of the broader economic cycle?">>,
   EARNINGS |->
     <<"What does Strykr.ai think about {company}'s recent earnings report and its implications?",
       "How might {company}'s earnings results impact its sector and related stocks?",
       "What's Strykr.ai's take on {company}'s guidance and forward outlook?",
       "Given {company}'s recent performance, how might their competitive position change?",
       "What key metrics from {company}'s earnings should investors focus on most?">>,
   TECH_AI |->
     <<"What does Strykr.ai predict for {keyword} policy developments in the coming weeks?",
       "How might the news about {keyword} impact the broader tech ecosystem?",
       "What are the investment implications of today's {keyword} announcements?",
       "How does Strykr.ai interpret the market's reaction to recent {keyword} news?",
       "What second-order effects might emerge from these {keyword} developments?">>,
   CRYPTO |->
     <<"What's Strykr.ai's take on the recent movements in {keyword} prices?",
       "How might today's {keyword} news impact the broader digital asset ecosystem?",
       "What factors are driving the current {keyword} market conditions?",
       "How should investors interpret the recent {keyword} developments?",
       "What might be the regulatory implications of recent {keyword} events?">>,
   REGULATION |->
     <<"How might the new {keyword} regulations impact financial markets?",
       "What's Strykr.ai's analysis of the potential consequences of these {keyword} regulatory changes?",
       "How should investors position themselves in light of these {keyword} regulatory developments?",
       "What sectors or companies might be most affected by these {keyword} regulatory changes?",
       "What precedent do these {keyword} regulatory actions set for future market governance?">>]

\* this.templates[topic.category] || this.templates.MACROECONOMICS
templateSet(category) ==
  IF category \in DOMAIN templates THEN templates[category]
  ELSE templates.MACROECONOMICS

\* String.prototype.indexOf(k), counted from 1; 0 if k does not occur.
find(s, k) ==
  IF includes(s, k)
  THEN CHOOSE i \in 1..(Len(s) - Len(k) + 1) :
         /\ SubSeq(s, i, i + Len(k) - 1) = k
         /\ \A j \in 1..(i - 1) : SubSeq(s, j, j + Len(k) - 1) # k
  ELSE 0

\* String.prototype.replace(k, v) with a string pattern: the first occurrence.
replace(s, k, v) ==
  LET i == find(s, k)
  IN  IF i = 0 THEN s
      ELSE SubSeq(s, 1, i - 1) \o v \o SubSeq(s, i + Len(k), Len(s))

\* Regular expressions of detectCompanyName. \w is [A-Za-z0-9_]; \b holds
\* between positions i and i + 1 of s when exactly one of them is a \w.
DigitsAndUnderscore == "0123456789_"
charAt(s, i) == IF i >= 1 /\ i <= Len(s) THEN SubSeq(s, i, i) ELSE ""
isUpper(ch) == Len(ch) = 1 /\ includes(UpperCase, ch)
isWord(ch) ==
  Len(ch) = 1 /\ (includes(UpperCase, ch) \/ includes(LowerCase, ch)
                  \/ includes(DigitsAndUnderscore, ch))
boundary(s, i) == isWord(charAt(s, i)) # isWord(charAt(s, i + 1))

\* The least element of a non-empty set of positions, 0 for the empty set.
leftmost(S) == IF S = {} THEN 0 ELSE CHOOSE i \in S : \A j \in S : i <= j

\* /\$([A-Z]{1,5})\b/ : the capital letters after the leftmost '$' that is
\* followed by one to five capitals and then a word boundary; "" if no match.
upperRun(s, i) ==
  leftmost({n \in 0..5 : ~isUpper(charAt(s, i + n + 1)) /\
                         \A k \in 1..n : isUpper(charAt(s, i + k))})
matchesCashtag(s, i) ==
  /\ charAt(s, i) = "$"
  /\ isUpper(charAt(s, i + 1))
  /\ \E n \in 1..5 : /\ \A k \in 1..n : isUpper(charAt(s, i + k))
                    /\ ~isUpper(charAt(s, i + n + 1))
                    /\ boundary(s, i + n)
matchCashtag(s) ==
  LET i == leftmost({j \in 1..Len(s) : matchesCashtag(s, j)})
  IN  IF i = 0 THEN "" ELSE SubSeq(s, i + 1, i + upperRun(s, i))

\* /\b(w1|w2|...)\b/ for the words of a list, compared exactly or, with the i
\* flag, without regard to case: the text at the leftmost position where a
\* word stands between two word boundaries; "" if no match.
wordAt(s, i, w, ignoreCase) ==
  LET sub == SubSeq(s, i, i + Len(w) - 1)
  IN  /\ i + Len(w) - 1 <= Len(s)
      /\ boundary(s, i - 1)
      /\ boundary(s, i + Len(w) - 1)
      /\ IF ignoreCase THEN toLowerCase(sub) = toLowerCase(w) ELSE sub = w
matchWords(s, words, ignoreCase) ==
  LET i == leftmost({j \in 1..Len(s) :
                       \E k \in 1..Len(words) : wordAt(s, j, words[k], ignoreCase)})
      k == leftmost({m \in 1..Len(words) : wordAt(s, i, words[m], ignoreCase)})
  IN  IF i = 0 THEN "" ELSE SubSeq(s, i, i + Len(words[k]) - 1)

Tickers ==
  <<"AAPL", "MSFT", "GOOGL", "GOOG", "AMZN", "META", "NVDA", "TSLA", "AMD", "INTC">>
CompanyNames ==
  <<"Apple", "Microsoft", "Google", "Amazon", "Meta", "Nvidia", "Tesla", "AMD", "Intel">>

\* The first of the three companyPatterns that matches s gives the company;
\* "" stands for no match (no pattern matches the empty string).
matchCompany(s) ==
  IF matchCashtag(s) # "" THEN matchCashtag(s)
  ELSE IF matchWords(s, Tickers, FALSE) # "" THEN matchWords(s, Tickers, FALSE)
  ELSE matchWords(s, CompanyNames, TRUE)

\* A variant that looks at the tweet text before the keywords.
detectCompanyTextFirst(keywords, tweetText) ==
  LET hit == leftmost({i \in 1..Len(keywords) : matchCompany(keywords[i]) # ""})
  IN  IF matchCompany(tweetText) # "" THEN matchCompany(tweetText)
      ELSE IF hit # 0 THEN matchCompany(keywords[hit]) ELSE ""

\* detectCompanyName(keywords, tweetText): the keywords in order, then the text;
\* "" stands for false.
detectCompanyName(keywords, tweetText) ==
  LET hit == leftmost({i \in 1..Len(keywords) : matchCompany(keywords[i]) # ""})
  IN  IF hit # 0 THEN matchCompany(keywords[hit]) ELSE matchCompany(tweetText)

\* A variant that ranks by engagement alone.
relevanceKeyWithoutRecency(tweet) ==
  TicksPerHour * (4 * tweet.retweetCount + 2 * tweet.likeCount
                  + 3 * tweet.quoteCount)

\* selectMostRelevantTweet: the comparator of the sort is key(b) - key(a) for
\* key = 2 * retweets + likes + 1.5 * quotes + 10 * createdAt / 30 min, here
\* multiplied by 2 * TicksPerHour to stay in the integers; the sort is stable,
\* so element 0 is the first tweet of the greatest key.
relevanceKey(tweet) ==
  TicksPerHour * (4 * tweet.retweetCount + 2 * tweet.likeCount
                  + 3 * tweet.quoteCount) + 40 * tweet.createdAt
mostRelevantIndex(tweets) ==
  leftmost({i \in 1..Len(tweets) :
              \A j \in 1..Len(tweets) :
                relevanceKey(tweets[j]) <= relevanceKey(tweets[i])})

\* A variant without the test for an empty list of tweets.
buildQueryErrorUnguarded(topic) ==
  IF ~topic.hasKeywords THEN "TypeError" ELSE "none"

\* The error buildQuery(topic) throws, "none" if it returns:
\* selectMostRelevantTweet throws 'No tweets provided to select from' when it is
\* given no tweets; topic.keywords[0] on a topic without keywords is a
\* TypeError.
buildQueryError(topic) ==
  IF Len(topic.relatedTweets) = 0 THEN "No tweets provided to select from"
  ELSE IF ~topic.hasKeywords THEN "TypeError"
  ELSE "none"

buildQueryThrows(topic) == buildQueryError(topic) # "none"

\* buildQuery(topic) when Math.random() picks the r-th template: the error it
\* throws, or the query and the source text of the QueryResult.
buildQuery(topic, r) ==
  IF buildQueryError(topic) # "none"
  THEN [error |-> buildQueryError(topic), query |-> "", sourceText |-> ""]
  ELSE IF Len(topic.relatedTweets) = 0
  THEN \* [].sort(...)[0] is undefined, and contextTweet.text a TypeError
       [error |-> "TypeError", query |-> "", sourceText |-> ""]
  ELSE LET contextTweet == topic.relatedTweets[mostRelevantIndex(topic.relatedTweets)]
           primaryKeyword == IF Len(topic.keywords) > 0 /\ topic.keywords[1] # ""
                             THEN topic.keywords[1] ELSE "market trends"
           template == templateSet(topic.category)[r]
           isCompany == detectCompanyName(topic.keywords, contextTweet.text)
       IN  [error |-> "none",
            query |-> IF includes(template, "{company}") /\ isCompany # ""
                      THEN replace(template, "{company}", isCompany)
                      ELSE replace(template, "{keyword}", primaryKeyword),
            sourceText |-> contextTweet.text]

(***************************************************************************)
(* The environment's inputs.                                               *)
(***************************************************************************)
\* What fetchRecentFinancialTweets() resolves to: the filtered, sorted tweets
\* of the search, or [] when the search throws. createdAt is measured from the
\* instant at which the batch is scored (0 is "now", -k is k ticks ago): the
\* scorer reads only Date.now() - createdAt.
Tweet(id, text, rt, likes, quotes, createdAt) ==
  [id |-> id, text |-> text, retweetCount |-> rt, likeCount |-> likes,
   quoteCount |-> quotes, createdAt |-> createdAt]

Batches ==
  { <<>>,
    <<Tweet(1, "BREAKING: Fed signals rate cut, inflation falls", 50, 100, 5, 0)>>,
    <<Tweet(2, "$AAPL beats earnings", 20, 30, 1, 0)>>,
    <<Tweet(3, "ALERT stocks flat today", 12, 2, 0, 0)>> }

\* const topics = await this.categorizationEngine.categorizeTopics(tweets): the
\* keyword scorer's result for each batch.
scoredBatches == [tweets \in Batches |-> sortedTopics(tweets, 0)]

\* What the chat-completion call of the fallback yields.
LlmResponses ==
  { "error",
    <<>>,
    <<[category |-> "CRYPTO", score |-> 80, keywords |-> <<"bitcoin">>,
       hasKeywords |-> TRUE]>>,
    <<[category |-> "EARNINGS", score |-> 60, keywords |-> <<>>,
       hasKeywords |-> FALSE]>> }

\* The host offsets tried with the whole pipeline.
HostOffsets == {-MaxTzHours, 0, MaxTzHours}

(***************************************************************************)
(* State.                                                                  *)
(***************************************************************************)
VARIABLES
  now,          \* Date.now(), in ticks
  tz,           \* the host's zone offset, local minus UTC, in hours
  cacheDir,     \* the files of data/cache
  isRunning,    \* MainOrchestrator.isRunning
  started,      \* startAutomatedProcess was called (the cron job exists)
  pc,           \* where each caller's runFullProcess invocation stands
  run,          \* each invocation's locals and what it did so far
  botIsRunning, \* StrykrTelegramBot.isRunning
  postInterval, \* StrykrTelegramBot.postInterval is a timer (not null)
  channelId,    \* TELEGRAM_CHANNEL_ID is set
  posted,       \* <<surface, file name>>: the file's content was sent there
  timers,       \* the setInterval timers of the bot that were not cleared
  lastOp        \* the operation that led to this state, with its result

vars == <<now, tz, cacheDir, isRunning, started, pc, run, botIsRunning,
          postInterval, channelId, posted, timers, lastOp>>

\* The callers of runFullProcess. In the core process: the eager run of
\* startAutomatedProcess, its cron job, and a direct call of the public method.
\* In the Telegram bot's process, which has a MainOrchestrator of its own: the
\* /run command and the interval timer.
CoreCallers == {"eager", "cron", "manual"}
BotCallers == {"run", "interval"}
Callers == CoreCallers \cup BotCallers

Outcomes == {"NoRelevantInput", "NoSignificantTopic", "SkippedDuplicate",
             "Success", "Failed"}
\* result.success
success(outcome) == outcome \in {"NoRelevantInput", "NoSignificantTopic",
                                 "SkippedDuplicate", "Success"}
\* The awaits of an accepted run.
InFlight == {"fetch", "llm", "check", "insight", "cache"}

NoTopic == [category |-> "none", score |-> 0, keywords |-> <<>>,
            relatedTweets |-> <<>>, hasKeywords |-> TRUE]
\* tweets, topic, content: the run's locals. stages: the stages it has begun,
\* in order. dedup: how the dedup check resolved ("none" before it did):
\* "recent" for true, "fresh" for false, "failed" for the false of its catch.
\* outcome: the run's result.
NoRun == [tweets |-> <<>>, topic |-> NoTopic, content |-> "none",
          stages |-> <<>>, dedup |-> "none", outcome |-> "none"]
NoOp == [op |-> "none"]
Step == [op |-> "step"]

\* A process after the constructors ran, with an empty cache directory.
Fresh ==
  /\ now = 0
  /\ tz \in HostOffsets
  /\ cacheDir = {}
  /\ isRunning = FALSE
  /\ started = FALSE
  /\ pc = [c \in Callers |-> "idle"]
  /\ run = [c \in Callers |-> NoRun]
  /\ botIsRunning = FALSE
  /\ postInterval = FALSE
  /\ posted = {}
  /\ timers = 0
  /\ lastOp = NoOp

\* The core process.
Init == Fresh /\ channelId = FALSE

\* The Telegram bot's process, with or without TELEGRAM_CHANNEL_ID.
InitBot == Fresh /\ channelId \in BOOLEAN

(***************************************************************************)
(* MainOrchestrator.runFullProcess.                                        *)
(***************************************************************************)
\* Variants of the guard and of the flag's reset, against which the properties
\* of the guard are tried: no guard; the flag left set when a stage throws.
rejectsNever == FALSE
flagKeptOnThrow(outcome) == outcome = "Failed"

\* if (this.isRunning) return { success: false, message: 'Process already running' }
rejects == isRunning

\* this.isRunning = false, before each return of an accepted run.
flagAfter(outcome) == FALSE

botVars == <<botIsRunning, postInterval, timers, channelId, posted>>

\* The synchronous head of runFullProcess, up to its first await. A rejected
\* call resolves at once; its caller reports the failure and is done.
Enter(c) ==
  /\ pc[c] = "idle"
  /\ IF rejects
     THEN /\ lastOp' = [op |-> "reject", caller |-> c, outcome |-> "AlreadyRunning"]
          /\ UNCHANGED <<isRunning, pc, run>>
     ELSE /\ isRunning' = TRUE
          /\ pc' = [pc EXCEPT ![c] = "fetch"]
          /\ run' = [run EXCEPT ![c] = [NoRun EXCEPT !.stages = <<"fetch">>]]
          /\ lastOp' = Step
  /\ UNCHANGED <<now, tz, cacheDir, botVars>>

\* After the run resolves: the bot's callers go on to getLatestContent if
\* result.success; every other continuation only logs or replies.
after(c, outcome) ==
  IF c \in BotCallers /\ success(outcome) THEN "latest" ELSE "idle"

\* A return of the accepted run, which began the stages done and got dedup
\* from the dedup check ("none" if it was not reached); error is the error the
\* catch block caught ("none" on the other returns).
ReturnWith(c, outcome, done, dedup, error) ==
  /\ isRunning' = flagAfter(outcome)
  /\ pc' = [pc EXCEPT ![c] = after(c, outcome)]
  /\ run' = [run EXCEPT ![c] =
               IF after(c, outcome) = "latest"
               THEN [NoRun EXCEPT !.outcome = outcome]
               ELSE NoRun]
  /\ lastOp' = [op |-> "return", caller |-> c, outcome |-> outcome,
                stages |-> done, dedup |-> dedup,
                content |-> run[c].content, error |-> error]

Return(c, outcome, done, dedup) == ReturnWith(c, outcome, done, dedup, "none")

\* A variant that composes the query before it looks at the number of topics.
ComposeBeforeEmptyTest(c, topics, done) ==
  IF Len(topics) = 0
  THEN Return(c, "NoSignificantTopic", Append(done, "compose"), "none")
  ELSE IF buildQueryThrows(topics[1])
  THEN ReturnWith(c, "Failed", Append(done, "compose"), "none",
                  buildQueryError(topics[1]))
  ELSE /\ pc' = [pc EXCEPT ![c] = "check"]
       /\ run' = [run EXCEPT ![c] = [NoRun EXCEPT
                    !.topic = topics[1],
                    !.stages = done \o <<"compose", "dedup">>]]
       /\ lastOp' = Step
       /\ UNCHANGED isRunning

\* Step 3 and the call of the dedup check: topics[0], buildQuery (which may
\* throw into the catch block), then await checkIfRecentlyProcessed.
Compose(c, topics, done) ==
  IF Len(topics) = 0
  THEN Return(c, "NoSignificantTopic", done, "none")
  ELSE IF buildQueryThrows(topics[1])
  THEN ReturnWith(c, "Failed", Append(done, "compose"), "none",
                  buildQueryError(topics[1]))
  ELSE /\ pc' = [pc EXCEPT ![c] = "check"]
       /\ run' = [run EXCEPT ![c] = [NoRun EXCEPT
                    !.topic = topics[1],
                    !.stages = done \o <<"compose", "dedup">>]]
       /\ lastOp' = Step
       /\ UNCHANGED isRunning

\* fetchRecentFinancialTweets resolves; categorizeTopics scores the tweets and,
\* when no keyword matched, awaits the fallback's chat completion.
FetchReturns(c) ==
  /\ pc[c] = "fetch"
  /\ \E tweets \in Batches :
       /\ IF Len(tweets) = 0
          THEN Return(c, "NoRelevantInput", run[c].stages, "none")
          ELSE LET sorted == scoredBatches[tweets]
                   done == Append(run[c].stages, "score")
               IN  IF Len(sorted) = 0
                   THEN /\ pc' = [pc EXCEPT ![c] = "llm"]
                        /\ run' = [run EXCEPT ![c] = [NoRun EXCEPT
                                     !.tweets = tweets,
                                     !.stages = Append(done, "fallback")]]
                        /\ lastOp' = Step
                        /\ UNCHANGED isRunning
                   ELSE Compose(c, categorizeFrom(sorted, tweets, "error"), done)
  /\ UNCHANGED <<now, tz, cacheDir, started, botVars>>

\* The fallback's chat completion resolves or rejects.
LlmReturns(c) ==
  /\ pc[c] = "llm"
  /\ \E llm \in LlmResponses :
       Compose(c, categorizeFrom(<<>>, run[c].tweets, llm), run[c].stages)
  /\ UNCHANGED <<now, tz, cacheDir, started, botVars>>

\* A variant that ignores the dedup check's answer.
skipsNever(isRecentlyProcessed) == FALSE

\* if (isRecentlyProcessed) return 'Topic recently processed, skipped'
skips(isRecentlyProcessed) == isRecentlyProcessed

\* checkIfRecentlyProcessed resolves.
CheckReturns(c) ==
  /\ pc[c] = "check"
  /\ \E fault \in {"none", "readdir", "readFile"} :
       LET isRecentlyProcessed ==
             checkIfRecentlyProcessed(cacheDir, now, tz, run[c].topic.category,
                                      join(run[c].topic.keywords), fault)
           dedup == IF fault # "none" THEN "failed"
                    ELSE IF isRecentlyProcessed THEN "recent" ELSE "fresh"
       IN  /\ fault = "readFile" => \E f \in cacheDir : ~fileSkipped(f, now, tz)
           /\ IF skips(isRecentlyProcessed)
              THEN Return(c, "SkippedDuplicate", run[c].stages, dedup)
              ELSE /\ pc' = [pc EXCEPT ![c] = "insight"]
                   /\ run' = [run EXCEPT ![c].stages = Append(@, "insight"),
                                         ![c].dedup = dedup]
                   /\ lastOp' = Step
                   /\ UNCHANGED isRunning
  /\ UNCHANGED <<now, tz, cacheDir, started, botVars>>

\* getInsight resolves, with the API's insight or with its own fallback text;
\* formatContent runs, then cacheProcessedTopic is awaited.
InsightReturns(c) ==
  /\ pc[c] = "insight"
  /\ \E content \in {"insight", "fallback"} :
       run' = [run EXCEPT ![c].content = content,
                          ![c].stages = @ \o <<"format", "record">>]
  /\ pc' = [pc EXCEPT ![c] = "cache"]
  /\ lastOp' = Step
  /\ UNCHANGED <<now, tz, cacheDir, isRunning, started, botVars>>

\* cacheProcessedTopic resolves and the run returns its success.
CacheReturns(c) ==
  /\ pc[c] = "cache"
  /\ \E fault \in {"none", "writeFile", "readdir"} :
       /\ cacheDir' = cacheProcessedTopic(cacheDir, now, run[c].topic.category,
                                          join(run[c].topic.keywords), fault, 0)
       /\ Return(c, "Success", run[c].stages, run[c].dedup)
  /\ UNCHANGED <<now, tz, started, botVars>>

(***************************************************************************)
(* The callers: startAutomatedProcess and the Telegram bot.                *)
(***************************************************************************)
\* startAutomatedProcess: the eager run, then the cron job is registered.
StartAutomatedProcess ==
  /\ ~started
  /\ started' = TRUE
  /\ Enter("eager")

\* The cron job fires.
CronTick ==
  /\ started
  /\ Enter("cron")
  /\ UNCHANGED started

\* A direct call of the public runFullProcess ("run the full process once
\* manually").
ManualRun ==
  /\ Enter("manual")
  /\ UNCHANGED started

\* bot.command('run'): runFullProcess is called.
RunCommand ==
  /\ Enter("run")
  /\ UNCHANGED started

\* The setInterval callback of startSchedule fires.
IntervalTick ==
  /\ timers > 0
  /\ Enter("interval")
  /\ UNCHANGED started

\* The publishing surfaces the latest content is posted to: the channel, if
\* TELEGRAM_CHANNEL_ID is set (/run also replies to the chat that asked).
surfaces(c) == IF channelId THEN {"channel"} ELSE {}

\* getLatestContent resolves (null for an empty directory or on an error) and
\* the content, if any, is sent.
BotPostLatest(c) ==
  /\ c \in BotCallers
  /\ pc[c] = "latest"
  /\ \E fault \in {"none", "readdir"} :
       LET content == fault = "none" /\ hasLatestContent(cacheDir)
           sent == IF content
                   THEN {<<sf, getLatestContent(cacheDir).name>> : sf \in surfaces(c)}
                   ELSE {}
       IN  /\ posted' = posted \cup sent
           /\ lastOp' = [op |-> "post", caller |-> c, outcome |-> run[c].outcome,
                         sent |-> sent, again |-> sent \cap posted]
  /\ pc' = [pc EXCEPT ![c] = "idle"]
  /\ run' = [run EXCEPT ![c] = NoRun]
  /\ UNCHANGED <<now, tz, cacheDir, isRunning, started, botIsRunning,
                 postInterval, timers, channelId>>

\* The most timers tried when /schedule is given no guard.
MaxTimers == 2

\* A variant of /schedule without the tests of isRunning.
ScheduleCommandUnguarded ==
  /\ botIsRunning' = TRUE
  /\ postInterval' = TRUE
  /\ timers' = IF timers < MaxTimers THEN timers + 1 ELSE timers
  /\ lastOp' = [op |-> "schedule", scheduled |-> botIsRunning]
  /\ UNCHANGED <<now, tz, cacheDir, isRunning, started, pc, run, channelId,
                 posted>>

\* bot.command('schedule'): startSchedule(60) unless already scheduled, which
\* sets isRunning and keeps the timer of setInterval in postInterval.
ScheduleCommand ==
  /\ IF botIsRunning
     THEN UNCHANGED <<botIsRunning, postInterval, timers>>
     ELSE /\ botIsRunning' = TRUE
          /\ postInterval' = TRUE
          /\ timers' = timers + 1
  /\ lastOp' = [op |-> "schedule", scheduled |-> botIsRunning]
  /\ UNCHANGED <<now, tz, cacheDir, isRunning, started, pc, run, channelId,
                 posted>>

\* bot.command('stop'): stopSchedule() unless not scheduled, which clears the
\* timer kept in postInterval.
StopCommand ==
  /\ IF ~botIsRunning \/ ~postInterval
     THEN UNCHANGED <<botIsRunning, postInterval, timers>>
     ELSE /\ timers' = timers - 1
          /\ postInterval' = FALSE
          /\ botIsRunning' = FALSE
  /\ lastOp' = [op |-> "stop", scheduled |-> botIsRunning]
  /\ UNCHANGED <<now, tz, cacheDir, isRunning, started, pc, run, channelId,
                 posted>>

\* Time passes.
ClockSteps == {(windowHours + 1) * TicksPerHour}
AdvanceClock ==
  /\ \E d \in ClockSteps :
       /\ now + d <= MaxTime
       /\ now' = now + d
  /\ lastOp' = Step
  /\ UNCHANGED <<tz, cacheDir, isRunning, started, pc, run, botVars>>

\* The steps of an accepted run.
RunStep(c) ==
  \/ FetchReturns(c)
  \/ LlmReturns(c)
  \/ CheckReturns(c)
  \/ InsightReturns(c)
  \/ CacheReturns(c)

Next ==
  \/ StartAutomatedProcess
  \/ CronTick
  \/ ManualRun
  \/ AdvanceClock
  \/ \E c \in CoreCallers : RunStep(c)

Spec == Init /\ [][Next]_vars

\* Every await of an accepted run settles: the promise of the fetch, of the
\* chat completion, of the file-system calls and of the insight request (which
\* has a 30 s timeout) resolves or rejects, and the continuation then runs.
SpecLive == Spec /\ \A c \in CoreCallers : WF_vars(RunStep(c))

NextBot ==
  \/ RunCommand
  \/ IntervalTick
  \/ ScheduleCommand
  \/ StopCommand
  \/ AdvanceClock
  \/ \E c \in BotCallers : RunStep(c) \/ BotPostLatest(c)

SpecBot == InitBot /\ [][NextBot]_vars

(***************************************************************************)
(* The dedup guard alone: cacheProcessedTopic and checkIfRecentlyProcessed *)
(* called at any instants, on a host of any zone offset.                   *)
(***************************************************************************)
DedupCategories == {"MACROECONOMICS", "TECH_AI"}
DedupKeywords ==
  {<<"inflation", "fed">>, <<"inflation">>, <<"ai">>, <<"openai">>, <<>>}

InitDedup ==
  /\ now = 0
  /\ tz \in TzOffsets
  /\ cacheDir = {}
  /\ isRunning = FALSE
  /\ started = FALSE
  /\ pc = [c \in Callers |-> "idle"]
  /\ run = [c \in Callers |-> NoRun]
  /\ botIsRunning = FALSE
  /\ postInterval = FALSE
  /\ channelId = FALSE
  /\ posted = {}
  /\ timers = 0
  /\ lastOp = NoOp

pipelineVars == <<isRunning, started, pc, run, botVars>>

\* await this.cacheProcessedTopic(category, keywords.join(','), content)
DedupRecord ==
  /\ Cardinality(cacheDir) < MaxRecords
  /\ \E category \in DedupCategories, keywords \in DedupKeywords :
       /\ cacheDir' = cacheProcessedTopic(cacheDir, now, category,
                                          join(keywords), "none", 0)
       /\ lastOp' = [op |-> "record", category |-> category,
                     keywords |-> keywords]
  /\ UNCHANGED <<now, tz, pipelineVars>>

\* await this.checkIfRecentlyProcessed(category, keywords.join(','))
DedupCheck ==
  /\ \E category \in DedupCategories, keywords \in DedupKeywords :
       lastOp' = [op |-> "check", category |-> category, keywords |-> keywords,
                  result |-> checkIfRecentlyProcessed(cacheDir, now, tz, category,
                                                      join(keywords), "none"),
                  prev |-> IF lastOp.op = "record" THEN lastOp ELSE NoOp]
  /\ UNCHANGED <<now, tz, cacheDir, pipelineVars>>

\* Time passes, by a tick within the first second of an hour or by an hour.
DedupTick ==
  /\ \E d \in {1, TicksPerHour} :
       /\ now + d <= MaxTime
       /\ (now + d) % TicksPerHour < TicksPerSecond
       /\ now' = now + d
  /\ lastOp' = Step
  /\ UNCHANGED <<tz, cacheDir, pipelineVars>>

NextDedup == DedupRecord \/ DedupCheck \/ DedupTick

SpecDedup == InitDedup /\ [][NextDedup]_vars

(***************************************************************************)
(* The retention alone: cacheProcessedTopic called on a cache directory    *)
(* that earlier runs have filled up to the cap.                            *)
(***************************************************************************)
\* The k files of earlier runs, one a second, the latest a second ago.
History(k) ==
  {[name |-> <<0 - i, 0>>, category |-> "MACROECONOMICS",
    keywords |-> "market,economy"] : i \in 1..k}

\* Directories at the cap, one below it, and up to MaxExcess above it (left
\* by a run whose pruning failed).
PriorCounts == (maxCacheFiles - 1)..(maxCacheFiles + MaxExcess)

InitRetention ==
  /\ now = 0
  /\ tz = 0
  /\ \E k \in PriorCounts : cacheDir = History(k)
  /\ isRunning = FALSE
  /\ started = FALSE
  /\ pc = [c \in Callers |-> "idle"]
  /\ run = [c \in Callers |-> NoRun]
  /\ botIsRunning = FALSE
  /\ postInterval = FALSE
  /\ channelId = FALSE
  /\ posted = {}
  /\ timers = 0
  /\ lastOp = NoOp

\* await this.cacheProcessedTopic(...), with the file-system call that throws,
\* if any, and the unlinks done before it.
RetentionRecord ==
  /\ \E fault \in {"none", "writeFile", "readdir", "unlink"},
        done \in 0..MaxExcess :
       LET file == [name |-> toISOString(now), category |-> "MACROECONOMICS",
                    keywords |-> "inflation"]
       IN  /\ IF fault = "unlink"
              THEN done < Cardinality(filesToDelete(writeFile(cacheDir, file)))
              ELSE done = 0
           /\ cacheDir' = cacheProcessedTopic(cacheDir, now, "MACROECONOMICS",
                                              "inflation", fault, done)
           /\ lastOp' = [op |-> "record", fault |-> fault, file |-> file,
                         before |-> cacheDir]
  /\ UNCHANGED <<now, tz, pipelineVars>>

\* Time passes, a tick at a time.
RetentionTick ==
  /\ now < MaxAppends
  /\ now' = now + 1
  /\ lastOp' = Step
  /\ UNCHANGED <<tz, cacheDir, pipelineVars>>

NextRetention == RetentionRecord \/ RetentionTick

SpecRetention == InitRetention /\ [][NextRetention]_vars

(***************************************************************************)
(* The query builder alone, and runFullProcess on any value of type Topic: *)
(* buildQuery is public and validates nothing but the number of tweets.    *)
(***************************************************************************)
Topic(category, keywords, relatedTweets) ==
  [category |-> category, score |-> 50, keywords |-> keywords,
   relatedTweets |-> relatedTweets, hasKeywords |-> TRUE]

AaplTweet == Tweet(2, "$AAPL beats earnings", 20, 30, 1, 0)
FlatTweet == Tweet(3, "ALERT stocks flat today", 12, 2, 0, 0)
ChipTweet == Tweet(4, "Apple unveils AI chip, $MSFT falls", 5, 9, 2, 0)
OldViralTweet == Tweet(5, "Tesla recall widens", 40, 80, 4, 0 - TicksPerHour)
FreshTweet == Tweet(6, "Nvidia guidance raised", 38, 80, 0, 0)

QueryTopics ==
  { Topic("EARNINGS", <<"AAPL">>, <<AaplTweet>>),
    Topic("EARNINGS", <<"earnings", "beats">>, <<AaplTweet>>),
    Topic("EARNINGS", <<"earnings">>, <<FlatTweet>>),
    Topic("EARNINGS", <<"AAPL">>, <<>>),
    Topic("TECH_AI", <<"apple", "ai">>, <<ChipTweet>>),
    Topic("EARNINGS", <<"msft", "Tesla">>, <<FlatTweet, ChipTweet>>),
    Topic("EARNINGS", <<"earnings", "Tesla">>, <<ChipTweet>>),
    Topic("EARNINGS", <<"guidance">>, <<OldViralTweet, ChipTweet>>),
    Topic("EARNINGS", <<"guidance">>, <<OldViralTweet, FreshTweet>>),
    Topic("OTHER", <<>>, <<FlatTweet>>),
    [Topic("EARNINGS", <<>>, <<AaplTweet>>) EXCEPT !.hasKeywords = FALSE] }

\* An input of the builder: a topic and the template Math.random() will pick.
InitQuery ==
  /\ now = 0
  /\ tz = 0
  /\ cacheDir = {}
  /\ isRunning = FALSE
  /\ started = FALSE
  /\ pc = [c \in Callers |-> "idle"]
  /\ run = [c \in Callers |-> NoRun]
  /\ botIsRunning = FALSE
  /\ postInterval = FALSE
  /\ channelId = FALSE
  /\ posted = {}
  /\ timers = 0
  /\ \E topic \in QueryTopics, r \in 1..Len(templates.EARNINGS) :
       lastOp = [op |-> "input", topic |-> topic, template |-> r]

\* queryBuilder.buildQuery(topic), Math.random() picking the r-th template.
builtQueries ==
  [topic \in QueryTopics, r \in 1..Len(templates.EARNINGS) |-> buildQuery(topic, r)]

BuildQuery ==
  /\ lastOp.op = "input"
  /\ lastOp' = [op |-> "buildQuery", topic |-> lastOp.topic,
                template |-> lastOp.template,
                result |-> builtQueries[lastOp.topic, lastOp.template]]
  /\ UNCHANGED <<now, tz, cacheDir, pipelineVars>>

\* categorizeTopics resolves to one topic that is any value of type Topic.
CategorizeResolvesTo(c) ==
  /\ pc[c] = "fetch"
  /\ \E topic \in QueryTopics : Compose(c, <<topic>>, <<"fetch", "score">>)
  /\ UNCHANGED <<now, tz, cacheDir, started, botVars>>

NextQuery ==
  \/ BuildQuery
  \/ ManualRun
  \/ CategorizeResolvesTo("manual")
  \/ RunStep("manual")

SpecQuery == InitQuery /\ [][NextQuery]_vars

(***************************************************************************)
(* The categorization engine alone: categorizeTopics on batches of tweets  *)
(* of every text, engagement and age below, with every answer of the       *)
(* chat-completion call, and the recency boost at every age.               *)
(***************************************************************************)
MaxAgeHours == 2

\* publicMetrics: <<retweetCount, likeCount, quoteCount>>
ScorerMetrics == << <<0, 0, 0>>, <<1, 2, 0>>, <<50, 100, 5>> >>

\* Date.now() - createdAt, in ticks
ScorerAges == << 0, 1, TicksPerHour >>

ScorerPool ==
  { Tweet(((x - 1) * Len(ScorerMetrics) + (m - 1)) * Len(ScorerAges) + a,
          ScorerTexts[x], ScorerMetrics[m][1], ScorerMetrics[m][2],
          ScorerMetrics[m][3], 0 - ScorerAges[a]) :
      x \in 1..Len(ScorerTexts), m \in 1..Len(ScorerMetrics),
      a \in 1..Len(ScorerAges) }

ScorerBatches ==
  {<<>>} \cup {<<a>> : a \in ScorerPool} \cup {<<a, b>> : a, b \in ScorerPool}

\* The answers of the chat-completion call: those of the pipeline, and arrays
\* with an object whose score is 0 or below.
ScorerLlmResponses ==
  << "error",
     <<>>,
     <<[category |-> "CRYPTO", score |-> 80, keywords |-> <<"bitcoin">>,
        hasKeywords |-> TRUE]>>,
     <<[category |-> "EARNINGS", score |-> 60, keywords |-> <<>>,
        hasKeywords |-> FALSE]>>,
     <<[category |-> "CRYPTO", score |-> 0, keywords |-> <<"bitcoin">>,
        hasKeywords |-> TRUE]>>,
     <<[category |-> "REGULATION", score |-> 70, keywords |-> <<"sec">>,
        hasKeywords |-> TRUE],
       [category |-> "MACROECONOMICS", score |-> 0 - 5, keywords |-> <<"fed">>,
        hasKeywords |-> TRUE]>> >>

\* The keyword scorer's sortedTopics of each batch, scored at instant 0.
scoredScorerBatches == [tweets \in ScorerBatches |-> sortedTopics(tweets, 0)]

\* A variant that returns every topic found.
keywordTopicsAll(sorted) == sorted

\* if (sortedTopics.length === 0) is false: return sortedTopics.slice(0, 3)
keywordTopics(sorted) == slice(sorted, 3)

\* An input of the engine: a batch, the answer the chat-completion call would
\* give, and an age.
InitScore ==
  /\ now = 0
  /\ tz = 0
  /\ cacheDir = {}
  /\ isRunning = FALSE
  /\ started = FALSE
  /\ pc = [c \in Callers |-> "idle"]
  /\ run = [c \in Callers |-> NoRun]
  /\ botIsRunning = FALSE
  /\ postInterval = FALSE
  /\ channelId = FALSE
  /\ posted = {}
  /\ timers = 0
  /\ \E tweets \in ScorerBatches, k \in 1..Len(ScorerLlmResponses),
        age \in 0..(MaxAgeHours * TicksPerHour) :
       /\ age > 0 => tweets = <<>> /\ k = 1
       /\ lastOp = [op |-> "input", tweets |-> tweets,
                    llm |-> ScorerLlmResponses[k], age |-> age]

\* The keyword scoring of categorizeTopics(tweets): the topics it found, before
\* the test that hands an empty result to the fallback.
ScoreKeywords ==
  /\ lastOp.op = "input"
  /\ lastOp' = [op |-> "score", tweets |-> lastOp.tweets,
                sorted |-> scoredScorerBatches[lastOp.tweets],
                topics |-> keywordTopics(scoredScorerBatches[lastOp.tweets])]
  /\ UNCHANGED <<now, tz, cacheDir, pipelineVars>>

\* categorizeTopics(tweets) with the chat-completion call answering llm: what
\* runFullProcess receives as topics.
CategorizeTopics ==
  /\ lastOp.op = "input"
  /\ lastOp' = [op |-> "categorize", tweets |-> lastOp.tweets,
                llm |-> lastOp.llm,
                sorted |-> scoredScorerBatches[lastOp.tweets],
                topics |-> categorizeFrom(scoredScorerBatches[lastOp.tweets],
                                          lastOp.tweets, lastOp.llm)]
  /\ UNCHANGED <<now, tz, cacheDir, pipelineVars>>

\* The recency boost of a tweet of the given age and of one a tick older.
RecencyBoost ==
  /\ lastOp.op = "input"
  /\ lastOp' = [op |-> "recencyBoost", age |-> lastOp.age,
                boost |-> recencyBoost(lastOp.age),
                older |-> recencyBoost(lastOp.age + 1)]
  /\ UNCHANGED <<now, tz, cacheDir, pipelineVars>>

NextScore == ScoreKeywords \/ CategorizeTopics \/ RecencyBoost

SpecScore == InitScore /\ [][NextScore]_vars

(***************************************************************************)
(* ContentFormatter: the Twitter text of formatContent.                    *)
(***************************************************************************)
\* max_length: 280 // Twitter character limit
maxLength == 280
\* const maxInsightLength = 180
maxInsightLength == 180
\* if (headline.length > 80) headline = headline.substring(0, 77) + '...'
maxHeadlineLength == 80
\* if (headline.length < 20)
minHeadlineLength == 20
\* The length of the longest tweet text tried.
MaxTextLen == 100

RECURSIVE repeat(_, _)
repeat(ch, n) == IF n <= 0 THEN "" ELSE ch \o repeat(ch, n - 1)

\* tweetText.split(/[.!?]/, 1)[0]: the text before its first '.', '!' or '?'.
firstSentence(text) ==
  LET ends == {i \in 1..Len(text) : includes(".!?", SubSeq(text, i, i))}
  IN  IF ends = {} THEN text ELSE SubSeq(text, 1, leftmost(ends) - 1)

\* String.prototype.trim(), for texts whose white space is the space.
RECURSIVE trim(_)
trim(s) ==
  IF Len(s) = 0 THEN s
  ELSE IF SubSeq(s, 1, 1) = " " THEN trim(SubSeq(s, 2, Len(s)))
  ELSE IF SubSeq(s, Len(s), Len(s)) = " " THEN trim(SubSeq(s, 1, Len(s) - 1))
  ELSE s

\* kw.replace(/\s+/g, '')
RECURSIVE withoutSpaces(_)
withoutSpaces(s) ==
  IF Len(s) = 0 THEN ""
  ELSE (IF SubSeq(s, 1, 1) = " " THEN "" ELSE SubSeq(s, 1, 1))
       \o withoutSpaces(SubSeq(s, 2, Len(s)))

\* Array.prototype.join(' ')
RECURSIVE joinSpace(_)
joinSpace(a) ==
  IF Len(a) = 0 THEN ""
  ELSE IF Len(a) = 1 THEN a[1]
  ELSE a[1] \o " " \o joinSpace(Tail(a))

\* getCategoryEmoji(category): the string literals of the source are 5 UTF-16
\* units long for MACROECONOMICS and REGULATION and 4 for the others; only
\* their length is kept.
getCategoryEmoji(category) ==
  IF category \in {"MACROECONOMICS", "REGULATION"} THEN repeat("e", 5)
  ELSE repeat("e", 4)

\* generateHeadline(tweetText, topic)
generateHeadline(tweetText, topic) ==
  LET sentence == trim(firstSentence(tweetText))
      headline == IF Len(sentence) > maxHeadlineLength
                  THEN SubSeq(sentence, 1, maxHeadlineLength - 3) \o "..."
                  ELSE sentence
      topicName == replace(toLowerCase(topic.category), "_", " ")
      keyword == IF Len(topic.keywords) > 0 /\ topic.keywords[1] # ""
                 THEN topic.keywords[1] ELSE topicName
  IN  IF Len(headline) < minHeadlineLength
      THEN "Latest " \o keyword \o " news impacting markets"
      ELSE headline

\* formatTwitterContent(emoji, headline, insight, topic)
formatTwitterContent(emoji, headline, insight, topic) ==
  LET tags == slice(topic.keywords, 2)
      hashtags == joinSpace([i \in 1..Len(tags) |-> "#" \o withoutSpaces(tags[i])])
      shortenedInsight ==
        IF Len(insight) > maxInsightLength
        THEN SubSeq(insight, 1, maxInsightLength - 3) \o "..."
        ELSE insight
  IN  emoji \o " BREAKING: " \o headline \o "\n\nStryk.ai says:\n\n\""
        \o shortenedInsight \o "\"\n\n" \o hashtags \o " #Stryk.ai"

\* formatContent(queryResult, strykResponse).twitter
formatContent(sourceText, topic, insight) ==
  formatTwitterContent(getCategoryEmoji(topic.category),
                       generateHeadline(sourceText, topic), insight, topic)

\* queryResult.sourceText: texts with and without a sentence end, shorter
\* than the least headline, and longer than the greatest.
FormatTexts ==
  { "BREAKING: Fed signals rate cut, inflation falls",
    "$AAPL beats earnings",
    "Up. Down",
    "  Tesla recall widens to more models! More soon",
    "",
    repeat("t", MaxTextLen) }

\* strykResponse.insight: the client's two fixed texts, and insights of the
\* API below, at and above maxInsightLength, up to the max_length asked for.
FormatInsights ==
  { "No insight available",
    "Unable to retrieve insights from Stryk.ai at this time. Please try again later.",
    repeat("i", maxInsightLength - 1),
    repeat("i", maxInsightLength),
    repeat("i", maxInsightLength + 1),
    repeat("i", maxLength) }

FormatKeywords ==
  { <<"inflation", "fed">>, <<"rate cut">>, <<"ai">>, <<>>,
    <<"artificial intelligence", "machine learning", "ai">> }

FormatCategories == {"MACROECONOMICS", "TECH_AI", "CRYPTO"}

InitFormat ==
  /\ now = 0
  /\ tz = 0
  /\ cacheDir = {}
  /\ isRunning = FALSE
  /\ started = FALSE
  /\ pc = [c \in Callers |-> "idle"]
  /\ run = [c \in Callers |-> NoRun]
  /\ botIsRunning = FALSE
  /\ postInterval = FALSE
  /\ channelId = FALSE
  /\ posted = {}
  /\ timers = 0
  /\ \E sourceText \in FormatTexts, insight \in FormatInsights,
        keywords \in FormatKeywords, category \in FormatCategories :
       lastOp = [op |-> "input", sourceText |-> sourceText,
                 insight |-> insight,
                 topic |-> Topic(category, keywords, <<>>)]

\* const formattedContent = this.contentFormatter.formatContent(...)
FormatContent ==
  /\ lastOp.op = "input"
  /\ lastOp' = [op |-> "format", sourceText |-> lastOp.sourceText,
                insight |-> lastOp.insight, topic |-> lastOp.topic,
                headline |-> generateHeadline(lastOp.sourceText, lastOp.topic),
                twitter |-> formatContent(lastOp.sourceText, lastOp.topic,
                                          lastOp.insight)]
  /\ UNCHANGED <<now, tz, cacheDir, pipelineVars>>

NextFormat == FormatContent

SpecFormat == InitFormat /\ [][NextFormat]_vars

(***************************************************************************)
(* Properties of the single-flight guard and of the pipeline.              *)
(***************************************************************************)
running == {c \in Callers : pc[c] \in InFlight}

\* C1: a runFullProcess request made while a run is in flight starts no stage
\* of its own, resolves at once with the non-success result 'Process already
\* running', and leaves the flag, the in-flight run, the cache directory and
\* what was posted as they were; it is not queued (the caller stays idle).
C1_RejectedWhileRunning ==
  [][/\ (isRunning => \A c \in Callers : pc[c] = "idle" => pc'[c] = "idle")
     /\ (lastOp'.op = "reject" =>
           /\ isRunning /\ isRunning'
           /\ lastOp'.outcome = "AlreadyRunning" /\ ~success(lastOp'.outcome)
           /\ UNCHANGED <<pc, run, cacheDir, posted, now>>)]_vars

\* A request was rejected while a run was awaiting its dedup check.
C1_Witness ==
  /\ lastOp.op = "reject"
  /\ \E c \in Callers : pc[c] = "check"

\* C2: in every reachable state of one coordinator, whatever the interleaving
\* of the eager run, cron ticks and manual requests, at most one run has
\* passed the guard and not yet returned.
C2_AtMostOneInFlight == Cardinality(running) <= 1

\* The cron job's run is in flight while the eager run and a manual request
\* have come and gone.
C2_Witness ==
  /\ pc["cron"] \in InFlight
  /\ lastOp.op = "reject" /\ lastOp.caller = "manual"

\* C3: when an accepted run returns, with any outcome, the flag is clear, so
\* the next request is not rejected.
C3_FlagClearedOnReturn ==
  lastOp.op = "return" =>
    /\ lastOp.outcome \in Outcomes
    /\ ~isRunning
    /\ ~rejects

\* A run returned Failed: buildQuery threw into the catch block.
C3_Witness == lastOp.op = "return" /\ lastOp.outcome = "Failed"

\* C4: a run whose outcome is SkippedDuplicate, NoRelevantInput or
\* NoSignificantTopic has nothing posted to any publishing surface, and no
\* record's content is posted to a surface a second time.
C4_NoRepost ==
  lastOp.op = "post" =>
    /\ lastOp.outcome \in {"SkippedDuplicate", "NoRelevantInput",
                           "NoSignificantTopic"} => lastOp.sent = {}
    /\ lastOp.again = {}

\* The interval callback posted, after a run that was skipped as a duplicate,
\* the content the channel already had.
C4_Witness ==
  /\ lastOp.op = "post" /\ lastOp.outcome = "SkippedDuplicate"
  /\ lastOp.again # {}

\* C5: a run whose dedup check returned true ends as SkippedDuplicate, without
\* the insight call, the formatting or the record stage, with no content, and
\* writes nothing to the cache directory.
C5_DuplicateSkipped ==
  [][lastOp'.op = "return" /\ lastOp'.dedup = "recent" =>
       /\ lastOp'.outcome = "SkippedDuplicate"
       /\ \A i \in 1..Len(lastOp'.stages) :
             lastOp'.stages[i] \notin {"insight", "format", "record"}
       /\ lastOp'.content = "none"
       /\ cacheDir' = cacheDir]_vars

\* A run was skipped because the dedup check returned true.
C5_Witness ==
  /\ lastOp.op = "return" /\ lastOp.dedup = "recent"
  /\ lastOp.outcome = "SkippedDuplicate"

\* C6: the cache directory changes only when a run returns Success, and then
\* by at most one file; a rejected request and a run of any other outcome
\* write none.
C6_OneWritePerSuccess ==
  [][cacheDir' # cacheDir =>
       /\ lastOp'.op = "return" /\ lastOp'.outcome = "Success"
       /\ Cardinality(cacheDir' \ cacheDir) <= 1]_vars

\* A second Success added its record to the one already there.
C6_Witness ==
  /\ lastOp.op = "return" /\ lastOp.outcome = "Success"
  /\ Cardinality(cacheDir) = 2

(***************************************************************************)
(* Properties of the dedup guard.                                          *)
(***************************************************************************)
\* The instant a cache file was written, and whether the keywords recorded in
\* it and a candidate's keywords have a keyword in common.
writtenAt(f) == f.name[1] * TicksPerSecond + f.name[2]
overlap(recorded, keywords) ==
  \E i \in 1..Len(recorded), j \in 1..Len(keywords) : recorded[i] = keywords[j]
window == windowHours * TicksPerHour

\* C7: a record followed immediately by a check with the same category and
\* a keyword list that contains one of the recorded keywords returns true.
C7_RecordThenCheck ==
  (/\ lastOp.op = "check" /\ lastOp.prev.op = "record"
   /\ lastOp.prev.category = lastOp.category
   /\ overlap(lastOp.prev.keywords, lastOp.keywords))
  => lastOp.result

\* record(MACROECONOMICS, [inflation, fed]) was followed at once by the check
\* of (MACROECONOMICS, [inflation]), which returned false.
C7_Witness ==
  /\ lastOp.op = "check" /\ lastOp.prev.op = "record"
  /\ lastOp.prev.category = "MACROECONOMICS"
  /\ lastOp.prev.keywords = <<"inflation", "fed">>
  /\ lastOp.category = "MACROECONOMICS" /\ lastOp.keywords = <<"inflation">>
  /\ ~lastOp.result

\* C8: the check returns false when no record of the candidate's category
\* shares a keyword with it, and true when such a record was written less
\* than windowHours ago.
C8_CheckMatchesHistory ==
  lastOp.op = "check" =>
    LET matching == {f \in cacheDir :
                       /\ f.category = lastOp.category
                       /\ overlap(split(f.keywords), lastOp.keywords)}
    IN  /\ matching = {} => ~lastOp.result
        /\ (\E f \in matching : now - writtenAt(f) < window) => lastOp.result

\* A candidate recorded an hour earlier with the same keyword was not found.
C8_Witness ==
  /\ lastOp.op = "check" /\ ~lastOp.result
  /\ \E f \in cacheDir :
       /\ f.category = lastOp.category
       /\ overlap(split(f.keywords), lastOp.keywords)
       /\ now - writtenAt(f) = TicksPerHour

\* C9: if every record that matches the candidate's category and keywords
\* was written earlier than now minus windowHours, the check returns false.
C9_OldRecordsSkipped ==
  (/\ lastOp.op = "check"
   /\ \A f \in cacheDir :
        recordMatches(f, lastOp.category, join(lastOp.keywords))
          => writtenAt(f) < now - window)
  => ~lastOp.result

\* A matching record older than the window made the check return true.
C9_Witness ==
  /\ lastOp.op = "check" /\ lastOp.result
  /\ \E f \in cacheDir :
       recordMatches(f, lastOp.category, join(lastOp.keywords))
  /\ \A f \in cacheDir : writtenAt(f) < now - window

(***************************************************************************)
(* Properties of the retention.                                            *)
(***************************************************************************)
\* kept is the history all (before plus the new file) cut down to the
\* maxCacheFiles most recent names, the new file among them.
retained(before, file, kept) ==
  LET all == {g \in before : g.name # file.name} \cup {file}
  IN  /\ kept \subseteq all
      /\ file \in kept
      /\ Cardinality(kept) <= maxCacheFiles
      /\ Cardinality(kept) = maxCacheFiles \/ kept = all
      /\ \A f \in kept, g \in all \ kept : nameLess(g.name, f.name)

C11_CheckFailsOpen ==
  lastOp.op = "return" /\ lastOp.dedup = "failed" =>
    /\ lastOp.outcome = "Success"
    /\ \E i \in 1..Len(lastOp.stages) : lastOp.stages[i] = "insight"

\* A run whose dedup check failed returned Success with content, while a
\* record was in the cache directory before it.
C11_Witness ==
  /\ lastOp.op = "return" /\ lastOp.dedup = "failed"
  /\ lastOp.content # "none"
  /\ Cardinality(cacheDir) = 2

\* The stages in the order the pipeline prescribes; the fallback classifier is
\* part of scoring.
Pipeline ==
  <<"fetch", "score", "compose", "dedup", "insight", "format", "record">>
isPrefix(a, b) == Len(a) <= Len(b) /\ \A i \in 1..Len(a) : a[i] = b[i]
withoutFallback(stages) == SelectSeq(stages, LAMBDA x : x # "fallback")
inOrder(stages) ==
  /\ isPrefix(withoutFallback(stages), Pipeline)
  /\ \A i \in 1..Len(stages) :
       stages[i] = "fallback" => i > 1 /\ stages[i - 1] = "score"

\* C12: the stages a run has begun, at any moment and when it returns, are a
\* prefix of fetch, score (with fallback), compose, dedup, insight, format,
\* record; a run that ends NoRelevantInput stops after fetch, NoSignificantTopic
\* after score, SkippedDuplicate after the dedup check, and a Success ran them
\* all.
C12_StagesInOrder ==
  /\ \A c \in Callers : inOrder(run[c].stages)
  /\ lastOp.op = "return" =>
       /\ inOrder(lastOp.stages)
       /\ lastOp.outcome = "NoRelevantInput" => lastOp.stages = <<"fetch">>
       /\ lastOp.outcome = "NoSignificantTopic" =>
            withoutFallback(lastOp.stages) = <<"fetch", "score">>
       /\ lastOp.outcome = "SkippedDuplicate" =>
            withoutFallback(lastOp.stages) = <<"fetch", "score", "compose", "dedup">>
       /\ lastOp.outcome = "Success" => withoutFallback(lastOp.stages) = Pipeline

\* A run ended NoSignificantTopic after the fallback classifier returned no
\* topic.
C12_Witness ==
  /\ lastOp.op = "return" /\ lastOp.outcome = "NoSignificantTopic"
  /\ lastOp.stages = <<"fetch", "score", "fallback">>

\* C13: a run ends Failed only through the empty-context error of compose
\* (no supporting post); every other failure is absorbed.
C13_OnlyEmptyContextFails ==
  lastOp.op = "return" /\ lastOp.outcome = "Failed" =>
    lastOp.error = "No tweets provided to select from"

\* A run ended Failed on a TypeError: the fallback classifier's answer was a
\* topic without keywords.
C13_Witness ==
  /\ lastOp.op = "return" /\ lastOp.outcome = "Failed"
  /\ lastOp.error = "TypeError"
  /\ lastOp.stages = <<"fetch", "score", "fallback", "compose">>

\* C14: buildQuery on a topic with no related tweets throws 'No tweets
\* provided to select from' and returns no query; no run gets past the compose
\* stage with such a topic, and the run in which buildQuery threw this error
\* ends Failed, without insight call, formatting or record.
C14_EmptyContextFails ==
  /\ lastOp.op = "buildQuery" /\ Len(lastOp.topic.relatedTweets) = 0 =>
       /\ lastOp.result.error = "No tweets provided to select from"
       /\ lastOp.result.query = ""
  /\ \A c \in Callers :
       pc[c] \in {"check", "insight", "cache"} => Len(run[c].topic.relatedTweets) > 0
  /\ lastOp.op = "return" /\ lastOp.error = "No tweets provided to select from" =>
       /\ lastOp.outcome = "Failed" /\ ~success(lastOp.outcome)
       /\ lastOp.stages = <<"fetch", "score", "compose">>
       /\ lastOp.content = "none"

\* A run whose top topic had no related tweets returned Failed with the
\* error of selectMostRelevantTweet.
C14_Witness ==
  /\ lastOp.op = "return" /\ lastOp.outcome = "Failed"
  /\ lastOp.error = "No tweets provided to select from"

(***************************************************************************)
(* Properties of the categorization engine.                                *)
(***************************************************************************)
\* The tweet's lower-cased text contains a keyword of the category.
matches(tweet, category) ==
  LET tweetText == toLowerCase(tweet.text)
  IN  \E k \in 1..Len(TOPIC_CATEGORIES[category]) :
        includes(tweetText, TOPIC_CATEGORIES[category][k])

noKeywordMatch(tweets) ==
  \A n \in 1..Len(tweets), i \in 1..Len(Categories) :
    ~matches(tweets[n], Categories[i])

\* C15: for a batch of tweets none of which contains a keyword of any
\* category, the empty batch included, the keyword scoring of categorizeTopics
\* yields the empty list of topics; it has no throwing step.
C15_NoMatchScoresEmpty ==
  lastOp.op = "score" /\ noKeywordMatch(lastOp.tweets)
    => lastOp.sorted = <<>> /\ lastOp.topics = <<>>

\* A batch of two tweets with engagement and without keywords was scored.
C15_Witness ==
  /\ lastOp.op = "score"
  /\ Len(lastOp.tweets) = 2
  /\ \A n \in 1..2 : engagementScore(lastOp.tweets[n]) > 0
  /\ noKeywordMatch(lastOp.tweets)
  /\ lastOp.topics = <<>>

\* C16 (as claimed): for a non-empty batch in which no keyword scored, the
\* fallback, and so categorizeTopics, returns at least one topic whatever the
\* chat-completion call answers.
C16_FallbackNonEmpty ==
  lastOp.op = "categorize" /\ Len(lastOp.tweets) > 0 /\ lastOp.sorted = <<>>
    => Len(lastOp.topics) >= 1

\* The call answered with an empty JSON array and the fallback returned no
\* topic for a batch of tweets.
C16_Witness ==
  /\ lastOp.op = "categorize"
  /\ Len(lastOp.tweets) > 0
  /\ lastOp.sorted = <<>>
  /\ lastOp.llm # "error"
  /\ Len(lastOp.llm) = 0
  /\ lastOp.topics = <<>>

\* C17 (as claimed): every topic categorizeTopics returns to runFullProcess,
\* from the keyword scoring or from the fallback, has a score above 0.
C17_SurfacedScoresPositive ==
  lastOp.op = "categorize"
    => \A i \in 1..Len(lastOp.topics) : lastOp.topics[i].score > 0

\* The top topic returned by the fallback has a score of 0 or less.
C17_Witness ==
  /\ lastOp.op = "categorize"
  /\ lastOp.sorted = <<>>
  /\ Len(lastOp.topics) > 0
  /\ lastOp.topics[1].score <= 0

categoryIndex(category) ==
  CHOOSE i \in 1..Len(Categories) : Categories[i] = category

\* C18: the keyword scoring returns at most 3 topics, of distinct categories,
\* by score descending, and topics of equal score in the order MACROECONOMICS,
\* EARNINGS, TECH_AI, CRYPTO, REGULATION.
C18_TopThreeOrdered ==
  lastOp.op = "score"
    => /\ Len(lastOp.topics) <= 3
       /\ \A i, j \in 1..Len(lastOp.topics) :
            i < j =>
              /\ lastOp.topics[i].category # lastOp.topics[j].category
              /\ lastOp.topics[i].score >= lastOp.topics[j].score
              /\ lastOp.topics[i].score = lastOp.topics[j].score
                   => categoryIndex(lastOp.topics[i].category)
                        < categoryIndex(lastOp.topics[j].category)

\* More than 3 categories scored, and of the 3 topics returned the last two
\* have the same score, below the first's.
C18_Witness ==
  /\ lastOp.op = "score"
  /\ Len(lastOp.sorted) > 3
  /\ Len(lastOp.topics) = 3
  /\ lastOp.topics[1].score > lastOp.topics[2].score
  /\ lastOp.topics[2].score = lastOp.topics[3].score

\* C19: for every age of 0 or more the recency boost is between 1 and 5, is
\* not raised by a greater age, is 5 under 15 minutes and 1 from 60 minutes on.
C19_RecencyBoostBounded ==
  lastOp.op = "recencyBoost"
    => /\ lastOp.boost \in 1..5
       /\ lastOp.older <= lastOp.boost
       /\ 4 * lastOp.age < TicksPerHour => lastOp.boost = 5
       /\ lastOp.age >= TicksPerHour => lastOp.boost = 1

\* An age in the middle of the range: the boost is below 5 and a tick later
\* lower still.
C19_Witness ==
  /\ lastOp.op = "recencyBoost"
  /\ lastOp.boost < 5
  /\ lastOp.older < lastOp.boost

(***************************************************************************)
(* Properties of the query builder.                                        *)
(***************************************************************************)
\* The company of the first keyword in which a company pattern matches, else
\* the company matched in the text, else "".
firstCompany(keywords, text) ==
  IF \E i \in 1..Len(keywords) : matchCompany(keywords[i]) # ""
  THEN matchCompany(keywords[CHOOSE i \in 1..Len(keywords) :
                       /\ matchCompany(keywords[i]) # ""
                       /\ \A j \in 1..(i - 1) : matchCompany(keywords[j]) = ""])
  ELSE matchCompany(text)

\* C20: the company of a query is detected in the topic's keywords, in order,
\* before the selected tweet's text; when one is detected and the template
\* drawn contains {company}, the query is the template with {company} replaced
\* by it (keywords [AAPL] on the first earnings template give "... about
\* AAPL's recent earnings report ..."), and otherwise the query is the template
\* with {keyword} replaced by the first keyword, or by 'market trends'.
C20_CompanyElseKeyword ==
  lastOp.op = "buildQuery" /\ lastOp.result.error = "none"
    => LET topic == lastOp.topic
           template == templateSet(topic.category)[lastOp.template]
           company == firstCompany(topic.keywords, lastOp.result.sourceText)
           primaryKeyword == IF Len(topic.keywords) > 0 /\ topic.keywords[1] # ""
                             THEN topic.keywords[1] ELSE "market trends"
       IN  /\ lastOp.result.query =
                IF includes(template, "{company}") /\ company # ""
                THEN replace(template, "{company}", company)
                ELSE replace(template, "{keyword}", primaryKeyword)
           /\ topic.category = "EARNINGS" /\ topic.keywords = <<"AAPL">>
                /\ lastOp.template = 1
                => lastOp.result.query =
                     "What does Strykr.ai think about AAPL's recent earnings report and its implications?"

\* An earnings query was built for a topic whose second keyword names a
\* company other than the one in the selected tweet's text, and carries the
\* keyword's company.
C20_Witness ==
  /\ lastOp.op = "buildQuery"
  /\ lastOp.result.error = "none"
  /\ lastOp.topic.category = "EARNINGS"
  /\ lastOp.topic.keywords = <<"earnings", "Tesla">>
  /\ matchCompany(lastOp.result.sourceText) = "MSFT"
  /\ lastOp.template = 2
  /\ lastOp.result.query =
       "How might Tesla's earnings results impact its sector and related stocks?"

(***************************************************************************)
(* Properties of the record stage and of the insight call.                 *)
(***************************************************************************)
\* C21 (as claimed): a run whose call of the insight service failed writes no
\* file to the cache directory.
C21_NoRecordAfterFailedInsight ==
  [][lastOp'.op = "return" /\ lastOp'.content = "fallback"
       => cacheDir' = cacheDir]_vars

\* A run whose insight call failed returned Success and left a file named by
\* the instant of its return in the cache directory.
C21_Witness ==
  /\ lastOp.op = "return" /\ lastOp.outcome = "Success"
  /\ lastOp.content = "fallback"
  /\ \E f \in cacheDir : f.name = toISOString(now)

(***************************************************************************)
(* Properties of the scores.                                               *)
(***************************************************************************)
\* The tweets of the batch that contain a keyword of the category, in order.
matching(tweets, category) ==
  SelectSeq(tweets, LAMBDA tweet : matches(tweet, category))

\* The sum over the tweets of retweets * 3 + likes + quotes * 2 times the
\* recency boost of the tweet's age at instant t.
RECURSIVE weightedSum(_, _)
weightedSum(tweets, t) ==
  IF Len(tweets) = 0 THEN 0
  ELSE (tweets[1].retweetCount * 3 + tweets[1].likeCount
          + tweets[1].quoteCount * 2) * recencyBoost(t - tweets[1].createdAt)
       + weightedSum(Tail(tweets), t)

distinctPosts(tweets) ==
  \A i, j \in 1..Len(tweets) : i # j => tweets[i].id # tweets[j].id

\* C22: for a batch of distinct tweets and every category, the score the
\* keyword scoring accumulates is the sum of retweets * 3 + likes + quotes * 2
\* times the recency boost over the tweets whose lower-cased text contains a
\* keyword of the category, each counted once, and the topic's related tweets
\* are those tweets, each once; a category whose sum is 0 yields no topic.
C22_ScoreIsWeightedSum ==
  lastOp.op = "score" /\ distinctPosts(lastOp.tweets)
    => \A c \in 1..Len(Categories) :
         LET posts == matching(lastOp.tweets, Categories[c])
             found == {p \in 1..Len(lastOp.sorted) :
                         lastOp.sorted[p].category = Categories[c]}
         IN  IF weightedSum(posts, 0) = 0 THEN found = {}
             ELSE /\ Cardinality(found) = 1
                  /\ \A p \in found :
                       /\ lastOp.sorted[p].score = weightedSum(posts, 0)
                       /\ lastOp.sorted[p].relatedTweets = posts

\* Of two tweets with engagement the first contains several keywords of
\* MACROECONOMICS and the second no keyword: the one topic found is
\* MACROECONOMICS with the first tweet as its only related tweet.
C22_Witness ==
  /\ lastOp.op = "score"
  /\ Len(lastOp.tweets) = 2
  /\ distinctPosts(lastOp.tweets)
  /\ lastOp.tweets[1].text = "BREAKING: Fed signals rate cut, inflation falls"
  /\ lastOp.tweets[2].text = "ALERT stocks flat today"
  /\ lastOp.tweets[2].retweetCount > 0
  /\ Len(lastOp.sorted) = 1
  /\ lastOp.sorted[1].category = "MACROECONOMICS"
  /\ lastOp.sorted[1].relatedTweets = <<lastOp.tweets[1]>>
  /\ lastOp.sorted[1].score =
       (lastOp.tweets[1].retweetCount * 3 + lastOp.tweets[1].likeCount
          + lastOp.tweets[1].quoteCount * 2) * 5

\* 2 * TicksPerHour times (retweets * 2 + likes + quotes * 1.5) + 10 *
\* (createdAt in units of 30 minutes).
rankingKey(tweet) ==
  2 * TicksPerHour * (2 * tweet.retweetCount + tweet.likeCount)
    + 3 * TicksPerHour * tweet.quoteCount
    + 10 * 4 * tweet.createdAt

\* C23: for a topic with related tweets, the source text of the query is the
\* text of a related tweet whose retweets * 2 + likes + quotes * 1.5 + 10 *
\* createdAt / 30 minutes is the greatest; a single related tweet is selected.
C23_SelectsTopRanked ==
  lastOp.op = "buildQuery" /\ lastOp.result.error = "none"
    => LET tweets == lastOp.topic.relatedTweets
       IN  /\ \E i \in 1..Len(tweets) :
                /\ tweets[i].text = lastOp.result.sourceText
                /\ \A j \in 1..Len(tweets) :
                     rankingKey(tweets[j]) <= rankingKey(tweets[i])
           /\ Len(tweets) = 1 => lastOp.result.sourceText = tweets[1].text

\* The second of two related tweets was selected: it has less engagement than
\* the first and is an hour newer.
C23_Witness ==
  /\ lastOp.op = "buildQuery"
  /\ lastOp.result.error = "none"
  /\ Len(lastOp.topic.relatedTweets) = 2
  /\ lastOp.topic.relatedTweets[1] = OldViralTweet
  /\ lastOp.topic.relatedTweets[2] = FreshTweet
  /\ lastOp.result.sourceText = FreshTweet.text

(***************************************************************************)
(* Termination of a run.                                                   *)
(***************************************************************************)
\* C24: the flag is set exactly while a run is in flight; it changes only when
\* an idle orchestrator accepts a request (Idle -> Running) and when the run
\* returns (Running -> Idle); and, every await settling, each accepted run
\* returns and leaves the orchestrator idle.
C24_RunsTerminate ==
  /\ [](isRunning <=> running # {})
  /\ [][isRunning' # isRunning =>
          \/ /\ ~isRunning
             /\ \E c \in Callers : pc[c] = "idle" /\ pc'[c] = "fetch"
          \/ /\ isRunning
             /\ lastOp'.op = "return"
             /\ lastOp'.outcome \in Outcomes]_vars
  /\ \A c \in CoreCallers :
       (pc[c] \in InFlight) ~> (pc[c] = "idle" /\ ~isRunning)

\* A run that went as far as the dedup check has returned, and the
\* orchestrator is idle again.
C24_Witness ==
  /\ lastOp.op = "return"
  /\ lastOp.outcome \in Outcomes
  /\ lastOp.dedup # "none"
  /\ ~isRunning
  /\ running = {}

(***************************************************************************)
(* Placeholders of the query.                                              *)
(***************************************************************************)
\* C25 (as claimed): the query buildQuery returns contains neither {company}
\* nor {keyword}, for every category, template and topic.
C25_NoUnfilledPlaceholder ==
  lastOp.op = "buildQuery" /\ lastOp.result.error = "none"
    => /\ ~includes(lastOp.result.query, "{company}")
       /\ ~includes(lastOp.result.query, "{keyword}")

\* An earnings query was built for a topic whose keywords and selected tweet
\* name no company, and it still holds {company}.
C25_Witness ==
  /\ lastOp.op = "buildQuery"
  /\ lastOp.result.error = "none"
  /\ lastOp.topic.category = "EARNINGS"
  /\ lastOp.topic.keywords = <<"earnings">>
  /\ lastOp.result.sourceText = "ALERT stocks flat today"
  /\ includes(lastOp.result.query, "{company}")

(***************************************************************************)
(* Records without keywords, and the host's zone.                          *)
(***************************************************************************)
\* C26 (as claimed): the check returns true only if some cached record of the
\* candidate's category has a non-empty keyword that occurs in the candidate's
\* comma-joined keywords; a record without keywords blocks nothing.
C26_EmptyKeywordsMatchNothing ==
  lastOp.op = "check" /\ lastOp.result
    => \E f \in cacheDir :
         /\ f.category = lastOp.category
         /\ \E i \in 1..Len(split(f.keywords)) :
              /\ split(f.keywords)[i] # ""
              /\ includes(join(lastOp.keywords), split(f.keywords)[i])

\* A topic was recorded without keywords, and the check of another topic of
\* its category, with a keyword, returned true at once.
C26_Witness ==
  /\ lastOp.op = "check" /\ lastOp.result
  /\ lastOp.prev.op = "record"
  /\ lastOp.prev.keywords = <<>>
  /\ lastOp.prev.category = lastOp.category
  /\ lastOp.keywords = <<"inflation">>
  /\ \A f \in cacheDir : f.keywords = ""

\* C27 (as claimed): whatever the host's zone offset, the instant the check
\* reads from a file name is the instant the file was written, to within a
\* second, and the check answers as it does on a host in UTC.
C27_ZoneIndependent ==
  lastOp.op = "check"
    => /\ \A f \in cacheDir :
            LET read == parseLocal(fileStem(f.name), tz)
            IN  /\ read <= writtenAt(f)
                /\ writtenAt(f) - read < TicksPerSecond
       /\ lastOp.result =
            checkIfRecentlyProcessed(cacheDir, now, 0, lastOp.category,
                                     join(lastOp.keywords), "none")

\* On a host east of UTC a check, made an hour after the record of the same
\* topic, returned false where a host in UTC returns true.
C27_Witness ==
  /\ lastOp.op = "check" /\ ~lastOp.result
  /\ tz > 0
  /\ \E f \in cacheDir : now - writtenAt(f) = TicksPerHour
  /\ checkIfRecentlyProcessed(cacheDir, now, 0, lastOp.category,
                              join(lastOp.keywords), "none")

(***************************************************************************)
(* The length of the Twitter text.                                         *)
(***************************************************************************)
\* C28 (as claimed): the Twitter text of formatContent is at most 280
\* characters long, for every source text, insight and keyword list.
C28_TwitterWithinLimit ==
  lastOp.op = "format" => Len(lastOp.twitter) <= maxLength

\* A headline within its limit, an insight of no more than maxInsightLength
\* characters and two short hashtags gave a text over the limit.
C28_Witness ==
  /\ lastOp.op = "format"
  /\ Len(lastOp.headline) <= maxHeadlineLength
  /\ lastOp.headline = lastOp.sourceText
  /\ Len(lastOp.insight) <= maxInsightLength
  /\ lastOp.topic.keywords = <<"inflation", "fed">>
  /\ Len(lastOp.twitter) > maxLength

(***************************************************************************)
(* The schedule of the Telegram bot.                                       *)
(***************************************************************************)
\* C29: in the Telegram bot isRunning is true exactly when postInterval holds
\* a timer, and that timer is the only one not cleared; /schedule while
\* scheduled and /stop while not scheduled change nothing of it.
C29_ScheduleConsistent ==
  /\ [](/\ botIsRunning <=> postInterval
        /\ timers = IF postInterval THEN 1 ELSE 0)
  /\ [][\/ lastOp'.op = "schedule" /\ lastOp'.scheduled
        \/ lastOp'.op = "stop" /\ ~lastOp'.scheduled
          => UNCHANGED <<botIsRunning, postInterval, timers>>]_vars

\* /schedule was given while the bot was scheduled, and one timer is active.
C29_Witness ==
  /\ lastOp.op = "schedule" /\ lastOp.scheduled
  /\ botIsRunning /\ postInterval /\ timers = 1

====
